---- MODULE Spec2Model ----
(***************************************************************************)
(* A model of scripts/compile_apertium.py: the batch pipeline that, for    *)
(* every selected language entry, acquires the working copy, builds it,    *)
(* harvests the compiled artifacts, and packages them with a license and   *)
(* a metadata descriptor.                                                  *)
(*                                                                         *)
(* Strings that the program takes apart (the --langs argument, the output  *)
(* of the revision query) and the codes compared with their parts are      *)
(* sequences of one-character strings.  File names are sequences of their  *)
(* dot-separated components.  External processes and the contents of the   *)
(* remote repositories are the environment: their outcomes are chosen      *)
(* nondeterministically.                                                   *)
(***************************************************************************)
EXTENDS Naturals, Sequences, FiniteSets, TLC

\* Longest configuration (number of language entries) explored.
MaxEntries == 2

Range(s) == {s[n] : n \in 1..Len(s)}

\* Python's None (for spec.ref, a string-or-None).
None == "<None>"

\* Python truthiness of a string-or-None value.
Truthy(v) == v # None /\ v # ""

(***************************************************************************)
(* String helpers: str.strip() and str.split(",")                          *)
(***************************************************************************)
Whitespace == {" ", "\n"}

RECURSIVE LStrip(_)
LStrip(s) == IF s # <<>> /\ Head(s) \in Whitespace THEN LStrip(Tail(s)) ELSE s

RECURSIVE RStrip(_)
RStrip(s) ==
    IF s # <<>> /\ s[Len(s)] \in Whitespace
    THEN RStrip(SubSeq(s, 1, Len(s) - 1))
    ELSE s

Strip(s) == RStrip(LStrip(s))

RECURSIVE SplitFrom(_, _, _, _)
SplitFrom(s, sep, cur, acc) ==
    IF s = <<>> THEN Append(acc, cur)
    ELSE IF Head(s) = sep
         THEN SplitFrom(Tail(s), sep, <<>>, Append(acc, cur))
         ELSE SplitFrom(Tail(s), sep, Append(cur, Head(s)), acc)

Split(s, sep) == SplitFrom(s, sep, <<>>, <<>>)

(***************************************************************************)
(* Program constants                                                       *)
(***************************************************************************)
REQUIRED_TOOLS == <<"git", "autoreconf", "make">>

LICENSE_CANDIDATES == <<"COPYING", "LICENSE", "COPYING.LESSER", "COPYING.GPL">>

\* The glob patterns of the harvester, each "*" followed by these components.
Patterns == << <<"automorf", "hfst">>, <<"autogen", "hfst">>,
               <<"rlx", "bin">>, <<"rlx">> >>

(***************************************************************************)
(* The configurations explored                                             *)
(***************************************************************************)
K == <<"k">>
T == <<"t">>
Codes == {K, T}

EntryK  == [code |-> K, repo |-> "u1", script |-> "Cyrl"]
EntryT  == [code |-> T, name |-> <<"T", "r">>, repo |-> "u2", script |-> "Latn",
            quality |-> "prod", ref |-> "v1"]
\* A second entry with the code of EntryK and another repository.
EntryK2 == [code |-> K, repo |-> "u2", script |-> "Latn", ref |-> "v1"]

Drop(e, key) == [f \in DOMAIN e \ {key} |-> e[f]]

WellFormed == {EntryK, EntryT, EntryK2}
Malformed  == {Drop(EntryT, "code"), Drop(EntryT, "repo"), Drop(EntryT, "script")}
Entries    == WellFormed \cup Malformed

Injective(s) == \A m, n \in 1..Len(s) : s[m] = s[n] => m = n

\* Configurations: lists of distinct entries (two entries may share a code).
Configs ==
    {c \in UNION {[1..n -> Entries] : n \in 0..MaxEntries} : Injective(c)}

\* Values of --langs.
LangArgs == { <<>>, <<"k">>, <<" ", "t", " ">>, <<"x">>, <<",">>,
              <<"x", ",", "t">> }

(***************************************************************************)
(* _load_config                                                            *)
(***************************************************************************)
Get(e, key, default) == IF key \in DOMAIN e THEN e[key] ELSE default

\* The keys read by subscript, in evaluation order.
RequiredKeys == <<"code", "repo", "script">>

MissingKeys(e) == {k \in Range(RequiredKeys) : k \notin DOMAIN e}

MakeSpec(e) ==
    [code    |-> e["code"],
     name    |-> Get(e, "name", e["code"]),
     repo    |-> e["repo"],
     script  |-> e["script"],
     quality |-> Get(e, "quality", "unknown"),
     ref     |-> Get(e, "ref", None)]

\* A slip of the loader: an entry that lacks a required key is skipped.
RECURSIVE LoadSkipping(_, _)
LoadSkipping(langs, acc) ==
    IF langs = <<>> THEN [exc |-> "", specs |-> acc]
    ELSE IF MissingKeys(Head(langs)) # {}
         THEN LoadSkipping(Tail(langs), acc)
         ELSE LoadSkipping(Tail(langs), Append(acc, MakeSpec(Head(langs))))

LoadConfigSkipping(cfg) == LoadSkipping(cfg, <<>>)

RECURSIVE LoadFrom(_, _)
LoadFrom(langs, acc) ==
    IF langs = <<>> THEN [exc |-> "", specs |-> acc]
    ELSE IF MissingKeys(Head(langs)) # {}
         THEN [exc |-> "KeyError", specs |-> <<>>]
         ELSE LoadFrom(Tail(langs), Append(acc, MakeSpec(Head(langs))))

LoadConfig(cfg) == LoadFrom(cfg, <<>>)

(***************************************************************************)
(* _filter_langs and the parsing of --langs in main                        *)
(***************************************************************************)
\* {code.strip() for code in args.langs.split(",") if code.strip()} or None;
\* None is the empty set here (both are falsy in _filter_langs).
ParseLangs(arg) ==
    {Strip(tok) : tok \in {t \in Range(Split(arg, ",")) : Strip(t) # <<>>}}

\* Two slips of the filter: the test inverted, and a selection that matches
\* nothing taken for no selection.
RECURSIVE SelectOthers(_, _)
SelectOthers(s, keep) ==
    IF s = <<>> THEN <<>>
    ELSE IF Head(s).code \notin keep
         THEN <<Head(s)>> \o SelectOthers(Tail(s), keep)
         ELSE SelectOthers(Tail(s), keep)

FilterLangsOrAll(sp, langs) ==
    IF \A n \in 1..Len(sp) : sp[n].code \notin langs
    THEN sp
    ELSE SelectSeq(sp, LAMBDA x : x.code \in langs)

RECURSIVE SelectSeq2(_, _)
SelectSeq2(s, keep) ==
    IF s = <<>> THEN <<>>
    ELSE IF Head(s).code \in keep
         THEN <<Head(s)>> \o SelectSeq2(Tail(s), keep)
         ELSE SelectSeq2(Tail(s), keep)

\* A third slip: the selection comes out in the reverse of the declared order.
FilterLangsReversed(sp, langs) ==
    LET sel == IF langs = {} THEN sp ELSE SelectSeq2(sp, langs)
    IN  [n \in 1..Len(sel) |-> sel[Len(sel) + 1 - n]]

FilterLangs(sp, langs) == IF langs = {} THEN sp ELSE SelectSeq2(sp, langs)

(***************************************************************************)
(* _check_tools                                                            *)
(***************************************************************************)
RECURSIVE MissingFrom(_, _)
MissingFrom(tools, onPath) ==
    IF tools = <<>> THEN <<>>
    ELSE IF Head(tools) \notin onPath
         THEN <<Head(tools)>> \o MissingFrom(Tail(tools), onPath)
         ELSE MissingFrom(Tail(tools), onPath)

\* A variant that stops at the first tool it misses.
CheckToolsFirstOnly(onPath) ==
    LET all == MissingFrom(REQUIRED_TOOLS, onPath)
    IN  IF all = <<>> THEN <<>> ELSE <<Head(all)>>

CheckToolsMissing(onPath) == MissingFrom(REQUIRED_TOOLS, onPath)

(***************************************************************************)
(* The environment: remote repositories, files, external commands          *)
(***************************************************************************)
Repos == {"u1", "u2"}

\* A directory entry of a working copy: a regular file or a directory, in
\* directory dir (relative to the root of the working copy), with its base
\* name and, for a file, its content.
File(dir, name, data) == [dir |-> dir, name |-> name, kind |-> "file", data |-> data]
Dir(dir, name)        == [dir |-> dir, name |-> name, kind |-> "dir", data |-> ""]

\* What a clone of each repository holds: the tree below the root ...
RepoTree(uri) ==
    IF uri = "u1"
    THEN {File("", <<"kaz", "rlx">>, "rules"), File("", <<"README">>, "readme")}
    ELSE {File("", <<"README">>, "readme")}

\* ... and the license candidates present in the root.
RepoLic(uri) == IF uri = "u1" THEN {"LICENSE", "COPYING.GPL"} ELSE {}

\* What a build may add to the tree (nothing, or compiled artifacts).
Artifacts == {File("", <<"a", "automorf", "hfst">>, "fst"),
              File("", <<"a", "rlx", "bin">>, "cg")}
ProductSets == {{}, Artifacts}

\* How an external command ends: exit status zero, exit status non-zero
\* (subprocess.CalledProcessError under check=True), or the process cannot
\* be started (OSError).
Outcomes == {"ok", "fail", "nostart"}

Raised(rc) ==
    IF rc = "ok" THEN "" ELSE IF rc = "fail" THEN "CalledProcessError" ELSE "OSError"

\* work_dir / f"apertium-{spec.code}" and out_dir / spec.code
RepoDirName(code) == <<"apertium-">> \o code
OutDirName(code)  == code

DirNames == {RepoDirName(c) : c \in Codes}

Cmd(argv, cwd) == [argv |-> argv, cwd |-> cwd]

CloneCmd(sp)      == Cmd(<<"git", "clone", "--depth", "1", sp.repo>> \o RepoDirName(sp.code), <<>>)
CheckoutCmd(sp)   == Cmd(<<"git", "checkout", sp.ref>>, RepoDirName(sp.code))
AutoreconfCmd(d)  == Cmd(<<"autoreconf", "-fi">>, d)
AutogenCmd(d)     == Cmd(<<"./autogen.sh">>, d)
ConfigureCmd(d)   == Cmd(<<"./configure">>, d)
MakeCmd(d)        == Cmd(<<"make", "-j", "jobs">>, d)
RevParseCmd(d)    == Cmd(<<"git", "rev-parse", "HEAD">>, d)

(***************************************************************************)
(* The record of a run: what is printed and which processes are started    *)
(***************************************************************************)
Event(ev, i, c, rc, text) ==
    [ev |-> ev, i |-> i, argv |-> c.argv, cwd |-> c.cwd, rc |-> rc, text |-> text]

NoCmd == Cmd(<<>>, <<>>)

Echo(i, c)     == Event("echo", i, c, "", <<>>)
Exec(i, c, rc) == Event("exec", i, c, rc, <<>>)
Say(i, text)   == Event("print", i, NoCmd, "", text)
Call(i, fn)    == Event("call", i, NoCmd, "", <<fn>>)
Rmtree(i, d)   == Event("rmtree", i, Cmd(<<>>, d), "", <<>>)
\* shutil.copy2 of entry f of the working copy at d into the output directory
Copy(i, d, f)  == Event("copy", i, Cmd(<<f.dir>> \o f.name, d), "", <<f.data>>)
\* the file named f of output directory o is written
Write(i, o, f) == Event("write", i, Cmd(<<f>>, o), "", <<>>)

\* A slip of the runner: the command is started without being echoed.
RunQuiet(i, c, rc) == <<Exec(i, c, rc)>>

\* _run: echo the command line, then run it (check=True).
Run(i, c, rc) == <<Echo(i, c), Exec(i, c, rc)>>

(***************************************************************************)
(* _clone_repo                                                             *)
(***************************************************************************)
\* A working copy: where it was cloned from, the revision checked out, the
\* tree below its root, the license candidates in its root.
FreshCopy(uri) ==
    [origin |-> uri, head |-> "tip", tree |-> RepoTree(uri), lic |-> RepoLic(uri)]

\* Two slips of the acquirer: cloning over a working copy that exists, and
\* ignoring the clean flag.
CloneRepoAgain(sp, i, wc, cleanFlag, rcClone, rcCheckout) ==
    LET d   == RepoDirName(sp.code)
        ev1 == IF wc # {} /\ cleanFlag THEN <<Rmtree(i, d)>> ELSE <<>>
        ev2 == ev1 \o Run(i, CloneCmd(sp), rcClone)
        wc2 == IF rcClone = "ok" THEN {FreshCopy(sp.repo)} ELSE {}
    IN  IF rcClone # "ok"
        THEN [wc |-> wc2, events |-> ev2, exc |-> Raised(rcClone)]
        ELSE IF Truthy(sp.ref)
             THEN [wc     |-> IF rcCheckout = "ok"
                              THEN {[w EXCEPT !.head = sp.ref] : w \in wc2}
                              ELSE wc2,
                   events |-> ev2 \o Run(i, CheckoutCmd(sp), rcCheckout),
                   exc    |-> Raised(rcCheckout)]
             ELSE [wc |-> wc2, events |-> ev2, exc |-> ""]

CloneRepoKeep(sp, i, wc, cleanFlag, rcClone, rcCheckout) ==
    LET cloned == wc = {}
        ev2    == IF cloned THEN Run(i, CloneCmd(sp), rcClone) ELSE <<>>
        wc2    == IF cloned
                  THEN (IF rcClone = "ok" THEN {FreshCopy(sp.repo)} ELSE {})
                  ELSE wc
    IN  IF cloned /\ rcClone # "ok"
        THEN [wc |-> wc2, events |-> ev2, exc |-> Raised(rcClone)]
        ELSE IF Truthy(sp.ref)
             THEN [wc     |-> IF rcCheckout = "ok"
                              THEN {[w EXCEPT !.head = sp.ref] : w \in wc2}
                              ELSE wc2,
                   events |-> ev2 \o Run(i, CheckoutCmd(sp), rcCheckout),
                   exc    |-> Raised(rcCheckout)]
             ELSE [wc |-> wc2, events |-> ev2, exc |-> ""]

\* A third slip: the revision is pinned only in a working copy just cloned.
CloneRepoPinFresh(sp, i, wc, cleanFlag, rcClone, rcCheckout) ==
    LET d       == RepoDirName(sp.code)
        removed == wc # {} /\ cleanFlag
        wc1     == IF removed THEN {} ELSE wc
        ev1     == IF removed THEN <<Rmtree(i, d)>> ELSE <<>>
        cloned  == wc1 = {}
        ev2     == IF cloned THEN ev1 \o Run(i, CloneCmd(sp), rcClone) ELSE ev1
        wc2     == IF cloned
                   THEN (IF rcClone = "ok" THEN {FreshCopy(sp.repo)} ELSE {})
                   ELSE wc1
    IN  IF cloned /\ rcClone # "ok"
        THEN [wc |-> wc2, events |-> ev2, exc |-> Raised(rcClone)]
        ELSE IF cloned /\ Truthy(sp.ref)
             THEN [wc     |-> IF rcCheckout = "ok"
                              THEN {[w EXCEPT !.head = sp.ref] : w \in wc2}
                              ELSE wc2,
                   events |-> ev2 \o Run(i, CheckoutCmd(sp), rcCheckout),
                   exc    |-> Raised(rcCheckout)]
             ELSE [wc |-> wc2, events |-> ev2, exc |-> ""]

\* wc is the set holding the working copy at repo_dir (empty: no such
\* directory).  rcClone and rcCheckout are how the two git commands end if
\* they are issued.  The result: the directory afterwards, the events, and
\* the exception raised ("" for none).
CloneRepo(sp, i, wc, cleanFlag, rcClone, rcCheckout) ==
    LET d       == RepoDirName(sp.code)
        removed == wc # {} /\ cleanFlag
        wc1     == IF removed THEN {} ELSE wc
        ev1     == IF removed THEN <<Rmtree(i, d)>> ELSE <<>>
        cloned  == wc1 = {}
        ev2     == IF cloned THEN ev1 \o Run(i, CloneCmd(sp), rcClone) ELSE ev1
        wc2     == IF cloned
                   THEN (IF rcClone = "ok" THEN {FreshCopy(sp.repo)} ELSE {})
                   ELSE wc1
    IN  IF cloned /\ rcClone # "ok"
        THEN [wc |-> wc2, events |-> ev2, exc |-> Raised(rcClone)]
        ELSE IF Truthy(sp.ref)
             THEN [wc     |-> IF rcCheckout = "ok"
                              THEN {[w EXCEPT !.head = sp.ref] : w \in wc2}
                              ELSE wc2,
                   events |-> ev2 \o Run(i, CheckoutCmd(sp), rcCheckout),
                   exc    |-> Raised(rcCheckout)]
             ELSE [wc |-> wc2, events |-> ev2, exc |-> ""]

(***************************************************************************)
(* _compile_repo                                                           *)
(***************************************************************************)
\* A slip of the build runner: the alternate bootstrap is run whatever the
\* primary one did.
CompileRepoBoth(d, i, w, rc, products) ==
    LET ev2   == Run(i, AutoreconfCmd(d), rc.autoreconf)
                 \o Run(i, AutogenCmd(d), rc.autogen)
        ev3   == ev2 \o Run(i, ConfigureCmd(d), rc.configure)
        ev4   == ev3 \o Run(i, MakeCmd(d), rc.make)
        built == [w EXCEPT !.tree = @ \cup products]
    IN  IF rc.autogen # "ok" THEN [w |-> w, events |-> ev2, exc |-> Raised(rc.autogen)]
        ELSE IF rc.configure # "ok"
             THEN [w |-> w, events |-> ev3, exc |-> Raised(rc.configure)]
             ELSE [w |-> built, events |-> ev4, exc |-> Raised(rc.make)]

\* rc gives how each of the four commands ends if it is issued; products is
\* what make leaves in the tree (also when it fails part-way).
CompileRepo(d, i, w, rc, products) ==
    LET ev1   == Run(i, AutoreconfCmd(d), rc.autoreconf)
        \* only CalledProcessError is caught
        fellBack == rc.autoreconf = "fail"
        ev2   == IF fellBack THEN ev1 \o Run(i, AutogenCmd(d), rc.autogen) ELSE ev1
        exc2  == IF fellBack THEN Raised(rc.autogen) ELSE Raised(rc.autoreconf)
        ev3   == ev2 \o Run(i, ConfigureCmd(d), rc.configure)
        ev4   == ev3 \o Run(i, MakeCmd(d), rc.make)
        built == [w EXCEPT !.tree = @ \cup products]
    IN  IF exc2 # "" THEN [w |-> w, events |-> ev2, exc |-> exc2]
        ELSE IF rc.configure # "ok"
             THEN [w |-> w, events |-> ev3, exc |-> Raised(rc.configure)]
             ELSE [w |-> built, events |-> ev4, exc |-> Raised(rc.make)]

(***************************************************************************)
(* _collect_outputs                                                        *)
(***************************************************************************)
\* fnmatch of a base name against "*" followed by the components pat.
Match(name, pat) ==
    /\ Len(name) > Len(pat)
    /\ SubSeq(name, Len(name) - Len(pat) + 1, Len(name)) = pat

Matches(tree, pat) == {f \in tree : Match(f.name, pat)}

\* The enumerations of a finite set, in any order (the order in which
\* rglob yields the entries is the file system's).
Orders(S) == {s \in [1..Cardinality(S) -> S] : Range(s) = S}

RECURSIVE VisitsFrom(_, _)
VisitsFrom(tree, pats) ==
    IF pats = <<>> THEN {<<>>}
    ELSE {a \o b : a \in Orders(Matches(tree, Head(pats))),
                   b \in VisitsFrom(tree, Tail(pats))}

\* The orders in which the two nested loops can visit the entries.
Visits(tree) == VisitsFrom(tree, Patterns)

\* An output directory: the harvested files by base name, the LICENSE file
\* and metadata.json (each a set of at most one element).
EmptyBundle == [files |-> {}, license |-> {}, meta |-> {}]

\* A slip of the harvester: a file that is already there is not overwritten.
CopyIntoFirstWins(files, f) ==
    IF \E g \in files : g.name = f.name
    THEN files
    ELSE files \cup {[name |-> f.name, data |-> f.data]}

\* shutil.copy2(path, out_dir / path.name)
CopyInto(files, f) ==
    {g \in files : g.name # f.name} \cup {[name |-> f.name, data |-> f.data]}

\* The loop body over the entries met, in order.  copy2 of a directory
\* raises; the copies made before it stay.
RECURSIVE CopyAll(_, _, _, _)
CopyAll(visit, files, found, done) ==
    IF visit = <<>>
    THEN [files |-> files, found |-> found, done |-> done, exc |-> ""]
    ELSE IF Head(visit).kind = "dir"
         THEN [files |-> files, found |-> found, done |-> done,
               exc |-> "IsADirectoryError"]
         ELSE CopyAll(Tail(visit), CopyInto(files, Head(visit)),
                      Append(found, Head(visit).name), Append(done, Head(visit)))

RECURSIVE CopyEvents(_, _, _)
CopyEvents(i, d, done) ==
    IF done = <<>> THEN <<>>
    ELSE <<Copy(i, d, Head(done))>> \o CopyEvents(i, d, Tail(done))

\* bundle is the set holding the output directory (empty: no directory yet);
\* visit is the order in which the matches are met.
CollectOutputs(d, i, w, bundle, visit) ==
    LET b0 == IF bundle = {} THEN EmptyBundle ELSE CHOOSE b \in bundle : TRUE
        r  == CopyAll(visit, b0.files, <<>>, <<>>)
    IN  [bundle |-> {[b0 EXCEPT !.files = r.files]}, found |-> r.found,
         events |-> CopyEvents(i, d, r.done), exc |-> r.exc]

(***************************************************************************)
(* _copy_license                                                           *)
(***************************************************************************)
\* A variant that lets a later candidate replace an earlier one.
RECURSIVE LastPresent(_, _)
LastPresent(candidates, present) ==
    IF candidates = <<>> THEN ""
    ELSE IF candidates[Len(candidates)] \in present THEN candidates[Len(candidates)]
         ELSE LastPresent(SubSeq(candidates, 1, Len(candidates) - 1), present)

RECURSIVE FirstPresent(_, _)
FirstPresent(candidates, present) ==
    IF candidates = <<>> THEN ""
    ELSE IF Head(candidates) \in present THEN Head(candidates)
         ELSE FirstPresent(Tail(candidates), present)

\* The content of <out>/LICENSE: a copy of a candidate of the working copy,
\* or of the fallback.
CopyLicense(w, b) ==
    LET c == FirstPresent(LICENSE_CANDIDATES, w.lic)
    IN  IF c # ""
        THEN [b EXCEPT !.license = {[src |-> "repo", name |-> c, origin |-> w.origin]}]
        ELSE [b EXCEPT !.license = {[src |-> "fallback", name |-> "LICENSE", origin |-> ""]}]

(***************************************************************************)
(* _write_metadata                                                         *)
(***************************************************************************)
\* What "git rev-parse HEAD" prints in a working copy.
RevParseStdout(w) == <<w.origin, "@", w.head, "\n">>

\* Two slips of the descriptor writer: a descriptor that exists is kept, and
\* a query that cannot be started is passed over without writing.
WriteMetadataKeep(sp, i, w, b, rc) ==
    LET d      == RepoDirName(sp.code)
        ev     == <<Exec(i, RevParseCmd(d), rc)>>
        commit == IF rc = "ok" THEN Strip(RevParseStdout(w)) ELSE <<>>
        metadata ==
            [lang          |-> sp.code,
             name          |-> sp.name,
             script        |-> sp.script,
             quality       |-> sp.quality,
             source        |-> sp.repo,
             commit        |-> commit,
             compiled_date |-> "today",
             license       |-> "GPL-3.0-or-later"]
    IN  IF rc = "nostart"
        THEN [b |-> b, events |-> ev, exc |-> Raised(rc)]
        ELSE [b      |-> IF b.meta = {} THEN [b EXCEPT !.meta = {metadata}] ELSE b,
              events |-> ev \o <<Write(i, OutDirName(sp.code), "metadata.json")>>,
              exc    |-> ""]

WriteMetadataSkip(sp, i, w, b, rc) ==
    LET d      == RepoDirName(sp.code)
        ev     == <<Exec(i, RevParseCmd(d), rc)>>
        commit == IF rc = "ok" THEN Strip(RevParseStdout(w)) ELSE <<>>
        metadata ==
            [lang          |-> sp.code,
             name          |-> sp.name,
             script        |-> sp.script,
             quality       |-> sp.quality,
             source        |-> sp.repo,
             commit        |-> commit,
             compiled_date |-> "today",
             license       |-> "GPL-3.0-or-later"]
    IN  IF rc = "nostart"
        THEN [b |-> b, events |-> ev, exc |-> ""]
        ELSE [b      |-> [b EXCEPT !.meta = {metadata}],
              events |-> ev \o <<Write(i, OutDirName(sp.code), "metadata.json")>>,
              exc    |-> ""]

WriteMetadata(sp, i, w, b, rc) ==
    LET d      == RepoDirName(sp.code)
        \* subprocess.run, not _run: nothing is echoed
        ev     == <<Exec(i, RevParseCmd(d), rc)>>
        commit == IF rc = "ok" THEN Strip(RevParseStdout(w)) ELSE <<>>
        metadata ==
            [lang          |-> sp.code,
             name          |-> sp.name,
             script        |-> sp.script,
             quality       |-> sp.quality,
             source        |-> sp.repo,
             commit        |-> commit,
             compiled_date |-> "today",
             license       |-> "GPL-3.0-or-later"]
    IN  \* only CalledProcessError is caught
        IF rc = "nostart"
        THEN [b |-> b, events |-> ev, exc |-> Raised(rc)]
        ELSE [b      |-> [b EXCEPT !.meta = {metadata}],
              events |-> ev \o <<Write(i, OutDirName(sp.code), "metadata.json")>>,
              exc    |-> ""]

(***************************************************************************)
(* The state of a run of main                                              *)
(***************************************************************************)
VARIABLES
    pc,         \* where main is
    langsArg,   \* args.langs
    clean,      \* args.clean
    toolPath,   \* the required tools that shutil.which finds
    config,     \* the entries of the configuration file, once read
    specs,      \* the local variable specs
    i,          \* the position of the loop in specs
    found,      \* the list returned by the last _collect_outputs
    fallback,   \* whether the fallback LICENSE was seen to exist
    workRoot,   \* whether the work root exists
    outRoot,    \* whether the output root exists
    work,       \* work root: directory name -> the working copy there, if any
    out,        \* output root: directory name -> the output directory, if any
    log,        \* what this run has printed, called and executed, in order
    ret,        \* the value main returned ("" while it runs)
    exc,        \* the exception that left main ("" for none)
    errArg      \* the list in the message of the RuntimeError of _check_tools

vars == <<pc, langsArg, clean, toolPath, config, specs, i, found, fallback,
          workRoot, outRoot, work, out, log, ret, exc, errArg>>

The(S) == CHOOSE x \in S : TRUE

\* What an earlier, successful run for entry e leaves behind: the built
\* working copy and the packaged output directory.
LeftCopy(e) ==
    LET sp == MakeSpec(e)
        c  == CloneRepo(sp, 1, {}, FALSE, "ok", "ok")
    IN  {[w EXCEPT !.tree = @ \cup Artifacts] : w \in c.wc}

LeftBundle(e) ==
    LET sp == MakeSpec(e)
        w  == The(LeftCopy(e))
        h  == CollectOutputs(RepoDirName(sp.code), 1, w, {}, The(Visits(w.tree)))
    IN  {WriteMetadata(sp, 1, w, CopyLicense(w, The(h.bundle)), "ok").b}

\* The file system before the run: nothing, or what earlier runs left.
LeftBy(es) ==
    [work |-> [d \in DirNames |->
                 UNION {LeftCopy(e) : e \in {x \in es : RepoDirName(x.code) = d}}],
     out  |-> [c \in Codes |->
                 UNION {LeftBundle(e) : e \in {x \in es : OutDirName(x.code) = c}}]]

Earlier == {{}, {EntryK}, {EntryK, EntryT}}

Init ==
    /\ pc = "check_tools"
    /\ langsArg \in LangArgs
    /\ clean \in BOOLEAN
    /\ toolPath = {}
    /\ config = <<>>
    /\ specs = <<>>
    /\ i = 0
    /\ found = <<>>
    /\ fallback = FALSE
    /\ \E es \in Earlier :
          /\ work = LeftBy(es).work
          /\ out = LeftBy(es).out
          /\ workRoot = (es # {})
          /\ outRoot = (es # {})
    /\ log = <<>>
    /\ ret = ""
    /\ exc = ""
    /\ errArg = <<>>

\* An exception leaves main.
Raise(e) == pc' = "exit" /\ exc' = e /\ ret' = ret

\* line 170
CheckTools ==
    /\ pc = "check_tools"
    /\ \E onPath \in SUBSET Range(REQUIRED_TOOLS) :
          LET missing == CheckToolsMissing(onPath)
          IN  /\ toolPath' = onPath
              /\ errArg' = missing
              /\ log' = Append(log, Call(0, "_check_tools"))
              /\ IF missing # <<>>
                 THEN Raise("RuntimeError")
                 ELSE pc' = "load_config" /\ UNCHANGED <<exc, ret>>
    /\ UNCHANGED <<langsArg, clean, config, specs, i, found, fallback,
                   workRoot, outRoot, work, out>>

\* line 172
LoadConfigStep ==
    /\ pc = "load_config"
    /\ \E cfg \in Configs :
          LET r == LoadConfig(cfg)
          IN  /\ config' = cfg
              /\ specs' = r.specs
              /\ log' = Append(log, Call(0, "_load_config"))
              /\ IF r.exc # ""
                 THEN Raise(r.exc)
                 ELSE pc' = "filter" /\ UNCHANGED <<exc, ret>>
    /\ UNCHANGED <<langsArg, clean, toolPath, i, found, fallback,
                   workRoot, outRoot, work, out, errArg>>

\* lines 173-178
FilterStep ==
    /\ pc = "filter"
    /\ LET selected == FilterLangs(specs, ParseLangs(langsArg))
       IN  /\ specs' = selected
           /\ IF selected = <<>>
              THEN /\ log' = log \o <<Call(0, "_filter_langs"),
                                      Say(0, <<"No languages selected.">>)>>
                   /\ ret' = "1"
                   /\ pc' = "exit"
              ELSE /\ log' = Append(log, Call(0, "_filter_langs"))
                   /\ ret' = ret
                   /\ pc' = "fallback"
    /\ UNCHANGED <<langsArg, clean, toolPath, config, i, found, fallback,
                   workRoot, outRoot, work, out, exc, errArg>>

\* A variant that leaves the missing fallback to be found when it is copied.
FallbackCheckLazy(exists) == ""

\* lines 181-182: what the test of fallback_license.exists() raises
FallbackCheck(exists) == IF exists THEN "" ELSE "FileNotFoundError"

\* lines 180-182
FallbackStep ==
    /\ pc = "fallback"
    /\ \E exists \in BOOLEAN :
          /\ fallback' = exists
          /\ log' = Append(log, Call(0, "fallback_license.exists"))
          /\ IF FallbackCheck(exists) = ""
             THEN pc' = "mkdirs" /\ UNCHANGED <<exc, ret>>
             ELSE Raise(FallbackCheck(exists))
    /\ UNCHANGED <<langsArg, clean, toolPath, config, specs, i, found,
                   workRoot, outRoot, work, out, errArg>>

\* lines 184-185, and the first pass through line 187
MkDirs ==
    /\ pc = "mkdirs"
    /\ workRoot' = TRUE
    /\ outRoot' = TRUE
    /\ i' = 1
    /\ pc' = "clone"
    /\ UNCHANGED <<langsArg, clean, toolPath, config, specs, found, fallback,
                   work, out, log, ret, exc, errArg>>

Header(sp) == <<"=== ">> \o sp.code \o <<" (">> \o sp.name \o <<") ===">>

\* lines 188-189
CloneStep ==
    /\ pc = "clone"
    /\ LET sp == specs[i]
           d  == RepoDirName(sp.code)
       IN  \E rcClone, rcCheckout \in Outcomes :
              LET r == CloneRepo(sp, i, work[d], clean, rcClone, rcCheckout)
              IN  /\ work' = [work EXCEPT ![d] = r.wc]
                  /\ log' = log \o <<Say(i, Header(sp)), Call(i, "_clone_repo")>>
                                \o r.events
                  /\ IF r.exc # ""
                     THEN Raise(r.exc)
                     ELSE pc' = "compile" /\ UNCHANGED <<exc, ret>>
    /\ UNCHANGED <<langsArg, clean, toolPath, config, specs, i, found, fallback,
                   workRoot, outRoot, out, errArg>>

\* line 190
CompileStep ==
    /\ pc = "compile"
    /\ LET d == RepoDirName(specs[i].code)
       IN  \E rc \in [{"autoreconf", "autogen", "configure", "make"} -> Outcomes],
              products \in ProductSets :
              LET r == CompileRepo(d, i, The(work[d]), rc, products)
              IN  /\ work' = [work EXCEPT ![d] = {r.w}]
                  /\ log' = Append(log, Call(i, "_compile_repo")) \o r.events
                  /\ IF r.exc # ""
                     THEN Raise(r.exc)
                     ELSE pc' = "collect" /\ UNCHANGED <<exc, ret>>
    /\ UNCHANGED <<langsArg, clean, toolPath, config, specs, i, found, fallback,
                   workRoot, outRoot, out, errArg>>

Warning(sp) == <<"Warning: no output files found for ">> \o sp.code

\* A slip: the empty harvest goes unreported.
HarvestReportSilent(sp, j, fnd) == <<>>

\* lines 194-195: what main prints about the list returned by the harvest
HarvestReport(sp, j, fnd) == IF fnd = <<>> THEN <<Say(j, Warning(sp))>> ELSE <<>>

\* lines 192-195
CollectStep ==
    /\ pc = "collect"
    /\ LET sp == specs[i]
           d  == RepoDirName(sp.code)
           w  == The(work[d])
           o  == OutDirName(sp.code)
       IN  \E visit \in Visits(w.tree) :
              LET r == CollectOutputs(d, i, w, out[o], visit)
              IN  /\ out' = [out EXCEPT ![o] = r.bundle]
                  /\ found' = r.found
                  /\ IF r.exc # ""
                     THEN /\ log' = Append(log, Call(i, "_collect_outputs"))
                                    \o r.events
                          /\ Raise(r.exc)
                     ELSE /\ log' = Append(log, Call(i, "_collect_outputs"))
                                    \o r.events \o HarvestReport(sp, i, r.found)
                          /\ pc' = "license"
                          /\ UNCHANGED <<exc, ret>>
    /\ UNCHANGED <<langsArg, clean, toolPath, config, specs, i, fallback,
                   workRoot, outRoot, work, errArg>>

\* line 197
LicenseStep ==
    /\ pc = "license"
    /\ LET sp == specs[i]
           w  == The(work[RepoDirName(sp.code)])
           o  == OutDirName(sp.code)
       IN  /\ out' = [out EXCEPT ![o] = {CopyLicense(w, The(out[o]))}]
           /\ log' = log \o <<Call(i, "_copy_license"), Write(i, o, "LICENSE")>>
    /\ pc' = "metadata"
    /\ UNCHANGED <<langsArg, clean, toolPath, config, specs, i, found, fallback,
                   workRoot, outRoot, work, ret, exc, errArg>>

\* line 198, and the next pass through line 187
MetadataStep ==
    /\ pc = "metadata"
    /\ LET sp == specs[i]
           w  == The(work[RepoDirName(sp.code)])
           o  == OutDirName(sp.code)
       IN  \E rc \in Outcomes :
              LET r == WriteMetadata(sp, i, w, The(out[o]), rc)
              IN  /\ out' = [out EXCEPT ![o] = {r.b}]
                  /\ log' = Append(log, Call(i, "_write_metadata")) \o r.events
                  /\ IF r.exc # ""
                     THEN Raise(r.exc) /\ i' = i
                     ELSE /\ UNCHANGED <<exc, ret>>
                          /\ IF i < Len(specs)
                             THEN i' = i + 1 /\ pc' = "clone"
                             ELSE i' = i /\ pc' = "summary"
    /\ UNCHANGED <<langsArg, clean, toolPath, config, specs, found, fallback,
                   workRoot, outRoot, work, errArg>>

\* lines 200-201
Summary ==
    /\ pc = "summary"
    /\ log' = Append(log, Say(i, <<"Done.">>))
    /\ ret' = "0"
    /\ pc' = "exit"
    /\ UNCHANGED <<langsArg, clean, toolPath, config, specs, i, found, fallback,
                   workRoot, outRoot, work, out, exc, errArg>>

Next ==
    \/ CheckTools
    \/ LoadConfigStep
    \/ FilterStep
    \/ FallbackStep
    \/ MkDirs
    \/ CloneStep
    \/ CompileStep
    \/ CollectStep
    \/ LicenseStep
    \/ MetadataStep
    \/ Summary

Spec == Init /\ [][Next]_vars

(***************************************************************************)
(* Reading the record of a run                                             *)
(***************************************************************************)
Called(j, fn) == Call(j, fn) \in Range(log)

\* The program started by an exec event, and the git subcommand.
Prog(e) == e.argv[1]
IsGit(e, op) == e.ev = "exec" /\ Prog(e) = "git" /\ e.argv[2] = op

\* The exec events of language j that start program p.
Execs(L, j, p) == {n \in 1..Len(L) : L[n].ev = "exec" /\ L[n].i = j /\ Prog(L[n]) = p}

\* The events added by a step.
Added == SubSeq(log', Len(log) + 1, Len(log'))

BuildProgs   == {"autoreconf", "./autogen.sh", "./configure", "make"}

LoopSteps == {"_clone_repo", "_compile_repo", "_collect_outputs",
              "_copy_license", "_write_metadata"}

\* The command of language j that ended its acquisition or build with a
\* non-zero exit: the last event of the run, since the exception leaves main.
FailedIn(j) ==
    /\ exc = "CalledProcessError"
    /\ log # <<>>
    /\ log[Len(log)].ev = "exec"
    /\ log[Len(log)].rc = "fail"
    /\ log[Len(log)].i = j

\* Two working copies that differ at most in the revision checked out.
SameCopy(w1, w2) == w1.origin = w2.origin /\ w1.tree = w2.tree /\ w1.lic = w2.lic

\* No entry of the tree matches a pattern; the warning of language j.
NoMatch(tree) == \A n \in 1..Len(Patterns) : Matches(tree, Patterns[n]) = {}

Warned(j) == Say(j, Warning(specs[j])) \in Range(log)

\* The first pattern a base name matches; the base name a copy wrote.
PatternOf(name) == CHOOSE n \in 1..Len(Patterns) : Match(name, Patterns[n])

Target(e) == Tail(e.argv)

\* The loop has not been entered: no step of any language was called, no
\* process was started, nothing was removed or copied.
NothingDone ==
    /\ i = 0
    /\ \A e \in Range(log) :
          /\ e.ev \notin {"exec", "echo", "rmtree", "copy"}
          /\ e.ev = "call" => e.text[1] \notin LoopSteps

ConfigCodes == {config[n]["code"] : n \in 1..Len(config)}

\* The working copy an event is about: the target of a clone, else the cwd.
DirOf(e) ==
    IF e.argv # <<>> /\ Prog(e) = "git" /\ e.argv[2] = "clone"
    THEN SubSeq(e.argv, 6, Len(e.argv))
    ELSE e.cwd

(***************************************************************************)
(* C1: in a batch of two or more selected languages, a non-zero exit in    *)
(* the acquisition or the build of one language does not keep the          *)
(* languages after it from being processed: once the run is over, the      *)
(* acquisition of every later language has been attempted.                 *)
(***************************************************************************)
C1_FailureIsolated ==
    (pc = "exit" /\ Len(specs) >= 2) =>
        \A j \in 1..Len(specs) :
            FailedIn(j) => \A k \in (j + 1)..Len(specs) : Called(k, "_clone_repo")

(***************************************************************************)
(* C2: when a build sub-step (the alternate bootstrap, configure, make) of *)
(* a language fails, the harvest of that language still runs afterwards.   *)
(***************************************************************************)
C2_HarvestAfterFailedBuild ==
    pc = "exit" =>
        \A j \in 1..Len(specs) :
            (FailedIn(j) /\ Prog(log[Len(log)]) \in BuildProgs)
                => Called(j, "_collect_outputs")

(***************************************************************************)
(* C3: without the clean flag the acquirer clones exactly when no working  *)
(* copy exists at the time of the call; a working copy that exists (left   *)
(* by an earlier run or by an earlier entry of this run with the same      *)
(* code) is not cloned again and stays in place.                           *)
(***************************************************************************)
C3_IdempotentAcquire ==
    [][ (pc = "clone" /\ ~clean) =>
          LET d      == RepoDirName(specs[i].code)
              cloned == \E n \in 1..Len(Added) : IsGit(Added[n], "clone")
          IN  /\ cloned <=> (work[d] = {})
              /\ work[d] # {} =>
                    /\ work'[d] # {}
                    /\ \A w2 \in work'[d] : \E w1 \in work[d] : SameCopy(w1, w2)
      ]_vars

\* A working copy was reused with the clean flag off.
C3_Witness ==
    /\ ~clean
    /\ pc = "compile"
    /\ Execs(log, i, "git") = {}
    /\ i = 2
    /\ specs[1].code = specs[2].code

(***************************************************************************)
(* C4: with the clean flag every acquisition issues a clone; a working     *)
(* copy that exists is destroyed first, and the destruction precedes the   *)
(* clone; an acquisition that succeeds leaves a freshly cloned working     *)
(* copy of the entry's repository, whatever was there before.              *)
(***************************************************************************)
C4_CleanAcquire ==
    [][ (pc = "clone" /\ clean) =>
          LET sp     == specs[i]
              d      == RepoDirName(sp.code)
              clones == {n \in 1..Len(Added) : IsGit(Added[n], "clone")}
              rms    == {n \in 1..Len(Added) : Added[n] = Rmtree(i, d)}
              fresh  == [FreshCopy(sp.repo) EXCEPT
                            !.head = IF Truthy(sp.ref) THEN sp.ref ELSE "tip"]
          IN  /\ Cardinality(clones) = 1
              /\ (rms # {}) <=> (work[d] # {})
              /\ \A m \in rms, n \in clones : m < n - 1
              /\ pc' = "compile" => work'[d] = {fresh}
              /\ (\E n \in clones : Added[n].rc # "ok") => work'[d] = {}
      ]_vars

\* A clean acquisition destroyed a working copy and cloned it anew.
C4_Witness ==
    /\ clean
    /\ pc = "compile"
    /\ Rmtree(i, RepoDirName(specs[i].code)) \in Range(log)

(***************************************************************************)
(* C5: per language the build runs the primary bootstrap first, the        *)
(* alternate bootstrap exactly when the primary one exited non-zero,       *)
(* configure only after a bootstrap that succeeded, make only after a      *)
(* configure that succeeded; a non-zero exit of the alternate bootstrap,   *)
(* of configure or of make ends the build with a process error and is the  *)
(* last command run; no sub-step runs twice.                               *)
(***************************************************************************)
C5_BuildOrder ==
    \A j \in 1..Len(specs) :
        Called(j, "_compile_repo") =>
            LET ar == Execs(log, j, "autoreconf")
                ag == Execs(log, j, "./autogen.sh")
                cf == Execs(log, j, "./configure")
                mk == Execs(log, j, "make")
            IN  /\ Cardinality(ar) = 1
                /\ Cardinality(ag) <= 1 /\ Cardinality(cf) <= 1 /\ Cardinality(mk) <= 1
                /\ \A m \in ar, n \in ag \cup cf \cup mk : m < n
                /\ (ag # {}) <=> (\E m \in ar : log[m].rc = "fail")
                /\ (cf # {}) <=> (\E m \in ar \cup ag : log[m].rc = "ok")
                /\ \A n \in cf : \E m \in ar \cup ag : m < n /\ log[m].rc = "ok"
                /\ (mk # {}) <=> (\E m \in cf : log[m].rc = "ok")
                /\ \A n \in mk : \E m \in cf : m < n
                /\ \A n \in ag \cup cf \cup mk :
                      log[n].rc = "fail" =>
                          /\ n = Len(log)
                          /\ pc = "exit"
                          /\ exc = "CalledProcessError"

\* A build that fell back to the alternate bootstrap and went through.
C5_Witness ==
    /\ pc = "collect"
    /\ \E n \in Execs(log, i, "./autogen.sh") : log[n].rc = "ok"
    /\ \E n \in Execs(log, i, "make") : log[n].rc = "ok"

(***************************************************************************)
(* C6: a harvest that finds no matching entry returns normally with a      *)
(* warning that names the language; the license and the metadata step of   *)
(* that language are executed next, and after them the loop goes on to     *)
(* the next language (or to the summary).                                  *)
(***************************************************************************)
C6_EmptyHarvestNotFatal ==
    /\ [][ (pc = "collect" /\ NoMatch(The(work[RepoDirName(specs[i].code)]).tree)) =>
             /\ found' = <<>>
             /\ exc' = ""
             /\ pc' = "license"
             /\ Say(i, Warning(specs[i])) \in Range(Added)
         ]_vars
    /\ [](\A j \in 1..Len(specs) :
            Warned(j) =>
                \/ pc = "license" /\ i = j /\ exc = ""
                \/ /\ Called(j, "_copy_license")
                   /\ \/ pc = "metadata" /\ i = j /\ exc = ""
                      \/ /\ Called(j, "_write_metadata")
                         /\ \/ /\ i = j /\ pc = "exit" /\ exc = "OSError"
                               /\ log[Len(log)] = Exec(j, RevParseCmd(RepoDirName(specs[j].code)), "nostart")
                            \/ j < Len(specs) /\ i > j
                            \/ j = Len(specs) /\ pc = "summary" /\ exc = ""
                            \/ j = Len(specs) /\ pc = "exit" /\ ret = "0" /\ exc = "")

\* The first of two languages had an empty harvest and the run went
\* through the second.
C6_Witness ==
    /\ Len(specs) = 2
    /\ Warned(1)
    /\ ~Warned(2)
    /\ ret = "0"

(***************************************************************************)
(* The harvester on its own: main stands before line 192 for one language  *)
(* whose working copy was cloned and built, the build having left any set  *)
(* of these entries in the tree; the output directory is absent or holds   *)
(* files of an earlier run.                                                *)
(***************************************************************************)
HarvestUniverse ==
    {File("", <<"a", "automorf", "hfst">>, "fst1"),
     File("sub", <<"a", "automorf", "hfst">>, "fst2"),
     File("", <<"a", "autogen", "hfst">>, "gen"),
     File("", <<"a", "rlx", "bin">>, "cg"),
     File("sub", <<"a", "rlx">>, "rules"),
     File("", <<"rlx">>, "plain"),
     File("", <<"a", "hfst">>, "other"),
     Dir("", <<"d", "rlx">>)}

StaleBundle ==
    [EmptyBundle EXCEPT !.files = {[name |-> <<"a", "automorf", "hfst">>, data |-> "old"],
                                   [name |-> <<"old", "rlx">>, data |-> "old"]}]

AllOk == [p \in {"autoreconf", "autogen", "configure", "make"} |-> "ok"]

InitHarvest ==
    LET sp == MakeSpec(EntryT)
        d  == RepoDirName(sp.code)
        c  == CloneRepo(sp, 1, {}, FALSE, "ok", "ok")
    IN  /\ pc = "collect"
        /\ langsArg = <<>>
        /\ clean = FALSE
        /\ toolPath = Range(REQUIRED_TOOLS)
        /\ config = <<EntryT>>
        /\ specs = <<sp>>
        /\ i = 1
        /\ found = <<>>
        /\ fallback = TRUE
        /\ workRoot = TRUE
        /\ outRoot = TRUE
        /\ \E products \in SUBSET HarvestUniverse :
              LET b == CompileRepo(d, 1, The(c.wc), AllOk, products)
              IN  /\ work = [x \in DirNames |-> IF x = d THEN {b.w} ELSE {}]
                  /\ log = <<Call(0, "_check_tools"), Call(0, "_load_config"),
                             Call(0, "_filter_langs"),
                             Call(0, "fallback_license.exists"),
                             Say(1, Header(sp)),
                             Call(1, "_clone_repo")>>
                           \o c.events \o <<Call(1, "_compile_repo")>> \o b.events
        /\ \E prior \in {{}, {StaleBundle}} :
              out = [x \in Codes |-> IF x = OutDirName(sp.code) THEN prior ELSE {}]
        /\ ret = ""
        /\ exc = ""
        /\ errArg = <<>>

NextHarvest == CollectStep

SpecHarvest == InitHarvest /\ [][NextHarvest]_vars

(***************************************************************************)
(* C7: a harvest that returns has copied every entry of the tree whose     *)
(* name matches one of the four patterns, under its base name, and lists   *)
(* it in its result; it has copied nothing else and touched no other file  *)
(* of the output directory; the entries are visited pattern by pattern,    *)
(* and of the entries with one base name the one visited last is the       *)
(* content left in the output directory.                                   *)
(***************************************************************************)
C7_HarvestExact ==
    [][ (pc = "collect" /\ pc' = "license") =>
          LET d       == RepoDirName(specs[i].code)
              o       == OutDirName(specs[i].code)
              tree    == The(work[d]).tree
              matched == UNION {Matches(tree, Patterns[n]) : n \in 1..Len(Patterns)}
              names   == {f.name : f \in matched}
              before  == IF out[o] = {} THEN {} ELSE The(out[o]).files
              after   == The(out'[o]).files
              copies  == SelectSeq(Added, LAMBDA e : e.ev = "copy")
          IN  /\ \A f \in matched :
                    /\ f.kind = "file"
                    /\ f.name \in Range(found')
                    /\ \E g \in after : g.name = f.name
                    /\ Copy(i, d, f) \in Range(copies)
              /\ Range(found') = names
              /\ Len(found') = Cardinality(matched)
              /\ Len(copies) = Cardinality(matched)
              /\ \A g \in after :
                    \/ g \in before /\ g.name \notin names
                    \/ \E f \in matched : f.name = g.name /\ f.data = g.data
              /\ \A g \in before : g.name \notin names => g \in after
              /\ \A g, h \in after : g.name = h.name => g = h
              /\ \A m, n \in 1..Len(copies) :
                    m < n => PatternOf(Target(copies[m])) <= PatternOf(Target(copies[n]))
              /\ \A g \in after :
                    g.name \in names =>
                        LET last == CHOOSE n \in 1..Len(copies) :
                                        /\ Target(copies[n]) = g.name
                                        /\ \A m \in (n + 1)..Len(copies) :
                                              Target(copies[m]) # g.name
                        IN  copies[last].text = <<g.data>>
      ]_vars

\* A harvest returned after copying two files with one base name over a
\* stale file of that name, leaving an unmatched file of the tree behind.
C7_Witness ==
    /\ pc = "license"
    /\ \E m, n \in 1..Len(log) :
          /\ m < n
          /\ log[m].ev = "copy" /\ log[n].ev = "copy"
          /\ Target(log[m]) = Target(log[n])
          /\ log[m].text # log[n].text
    /\ StaleBundle.files \cap The(out[T]).files # {}
    /\ StaleBundle.files \ The(out[T]).files # {}
    /\ \E f \in The(work[RepoDirName(T)]).tree : f.name = <<"a", "hfst">>

(***************************************************************************)
(* C8: a language filter that is not empty and names no code of the        *)
(* configuration selects nothing: the run returns 1 and no clone, build,   *)
(* harvest, license or metadata step is executed.                          *)
(***************************************************************************)
C8_NoMatchExit1 ==
    ( /\ Called(0, "_filter_langs")
      /\ ParseLangs(langsArg) # {}
      /\ ParseLangs(langsArg) \cap ConfigCodes = {} ) =>
        /\ specs = <<>>
        /\ pc = "exit"
        /\ ret = "1"
        /\ exc = ""
        /\ NothingDone

\* Two entries, a filter that names neither.
C8_Witness ==
    /\ ret = "1"
    /\ Len(config) = 2
    /\ ParseLangs(langsArg) = {<<"x">>}

(***************************************************************************)
(* C9: under a non-empty language filter no working copy and no output     *)
(* directory of a code outside the filter is created or changed, and every *)
(* process started, every tree removed and every file copied belongs to    *)
(* the working copy of a code in the filter.                               *)
(***************************************************************************)

C9_FilterConfines ==
    /\ [][ ParseLangs(langsArg) # {} =>
             \A c \in Codes \ ParseLangs(langsArg) :
                 /\ work'[RepoDirName(c)] = work[RepoDirName(c)]
                 /\ out'[OutDirName(c)] = out[OutDirName(c)]
         ]_vars
    /\ [](ParseLangs(langsArg) # {} =>
            \A e \in Range(log) :
                /\ e.ev \in {"exec", "echo", "rmtree", "copy"} =>
                      \E c \in ParseLangs(langsArg) : DirOf(e) = RepoDirName(c)
                /\ (e.ev = "call" /\ e.i >= 1) =>
                      specs[e.i].code \in ParseLangs(langsArg))

\* Two entries, the filter names the second: after the run only the
\* second's working copy and output directory exist.
C9_Witness ==
    /\ config = <<EntryK, EntryT>>
    /\ ParseLangs(langsArg) = {T}
    /\ ret = "0"
    /\ work[RepoDirName(K)] = {} /\ out[OutDirName(K)] = {}
    /\ work[RepoDirName(T)] # {} /\ out[OutDirName(T)] # {}

(***************************************************************************)
(* C10: when an entry of the configuration lacks code, repo or script,     *)
(* loading fails with an error that leaves main, and nothing is cloned,    *)
(* built, harvested or packaged for any entry.                             *)
(***************************************************************************)
C10_ConfigErrorAborts ==
    (\E n \in 1..Len(config) : MissingKeys(config[n]) # {}) =>
        /\ pc = "exit"
        /\ exc = "KeyError"
        /\ ret = ""
        /\ specs = <<>>
        /\ NothingDone

\* A well-formed entry declared before the faulty one.
C10_Witness ==
    /\ exc = "KeyError"
    /\ Len(config) = 2
    /\ MissingKeys(config[1]) = {}
    /\ MissingKeys(config[2]) # {}

(***************************************************************************)
(* C11: the tool check reports every missing tool at once and comes before *)
(* all work.  Whatever subset of git, autoreconf, make is off the PATH,    *)
(* the check raises one RuntimeError whose list holds exactly the missing  *)
(* tools, each once, in the order of REQUIRED_TOOLS; it raises nothing     *)
(* exactly when no tool is missing; and when it raises, the run is over    *)
(* with the configuration not loaded and no clone, build, harvest, license *)
(* or metadata step taken.                                                 *)
(***************************************************************************)
C11_ToolCheckComplete ==
    Called(0, "_check_tools") =>
        LET absent == Range(REQUIRED_TOOLS) \ toolPath
        IN  /\ Range(errArg) = absent
            /\ Len(errArg) = Cardinality(absent)
            /\ \A m, n \in 1..Len(errArg) :
                   m < n => \E a, b \in 1..Len(REQUIRED_TOOLS) :
                               /\ a < b
                               /\ REQUIRED_TOOLS[a] = errArg[m]
                               /\ REQUIRED_TOOLS[b] = errArg[n]
            /\ (exc = "RuntimeError") <=> (absent # {})
            /\ absent # {} =>
                   /\ pc = "exit"
                   /\ ret = ""
                   /\ log = <<Call(0, "_check_tools")>>
                   /\ config = <<>>
                   /\ NothingDone
                   /\ \A n \in 1..Len(log) : log[n].ev # "print"

\* Two tools are missing and neither is the first of the list.
C11_Witness ==
    /\ exc = "RuntimeError"
    /\ errArg = <<"autoreconf", "make">>
    /\ "git" \in toolPath

\* The places in the record where the fallback license was tested.
FallbackTests == {n \in 1..Len(log) : log[n] = Call(0, "fallback_license.exists")}

(***************************************************************************)
(* C12: the fallback license is validated once, before the loop.  When at  *)
(* least one language is selected and the fallback file is missing, the    *)
(* run ends with FileNotFoundError with no language acquired, built,       *)
(* harvested or packaged; the work root, the output root and everything    *)
(* below them change only in steps taken after the test has passed; the    *)
(* test is made at most once in a run, only when a language is selected,   *)
(* and before every event of the loop.                                     *)
(***************************************************************************)
C12_FallbackEager ==
    /\ [][(\/ workRoot' # workRoot
           \/ outRoot' # outRoot
           \/ work' # work
           \/ out' # out
           \/ i' # i) => (FallbackTests # {} /\ fallback)]_vars
    /\ [](/\ Cardinality(FallbackTests) <= 1
          /\ FallbackTests # {} => specs # <<>> /\ Called(0, "_filter_langs")
          /\ \A m \in FallbackTests : \A n \in 1..Len(log) : log[n].i >= 1 => m < n
          /\ (FallbackTests # {} /\ ~fallback) =>
                /\ exc = "FileNotFoundError"
                /\ pc = "exit"
                /\ ret = ""
                /\ NothingDone
          /\ exc = "FileNotFoundError" => (FallbackTests # {} /\ ~fallback)
          /\ pc \in {"mkdirs", "clone", "compile", "collect", "license",
                     "metadata", "summary"} => (FallbackTests # {} /\ fallback))

\* Two languages are selected, the fallback is missing, and the roots, absent
\* at the start, were not created.
C12_Witness ==
    /\ exc = "FileNotFoundError"
    /\ Len(specs) = 2
    /\ ~workRoot
    /\ ~outRoot

(***************************************************************************)
(* The license step on its own: main stands before line 197 for one        *)
(* language whose working copy was cloned, built and harvested; the root   *)
(* of the working copy holds any set of the candidate files, and the       *)
(* output directory is new or was left by an earlier run.                  *)
(***************************************************************************)
InitLicense ==
    \E e \in {EntryK, EntryT} :
    \E present \in SUBSET Range(LICENSE_CANDIDATES) :
    \E products \in ProductSets :
    \E prior \in {{}, LeftBundle(e)} :
        LET sp == MakeSpec(e)
            d  == RepoDirName(sp.code)
            o  == OutDirName(sp.code)
            c  == CloneRepo(sp, 1, {}, FALSE, "ok", "ok")
            b  == CompileRepo(d, 1, [The(c.wc) EXCEPT !.lic = present], AllOk, products)
            h  == CollectOutputs(d, 1, b.w, prior, The(Visits(b.w.tree)))
        IN  /\ pc = "license"
            /\ langsArg = <<>>
            /\ clean = FALSE
            /\ toolPath = Range(REQUIRED_TOOLS)
            /\ config = <<e>>
            /\ specs = <<sp>>
            /\ i = 1
            /\ found = h.found
            /\ fallback = TRUE
            /\ workRoot = TRUE
            /\ outRoot = TRUE
            /\ work = [x \in DirNames |-> IF x = d THEN {b.w} ELSE {}]
            /\ out = [x \in Codes |-> IF x = o THEN h.bundle ELSE {}]
            /\ log = <<Call(0, "_check_tools"), Call(0, "_load_config"),
                       Call(0, "_filter_langs"),
                       Call(0, "fallback_license.exists"),
                       Say(1, Header(sp)),
                       Call(1, "_clone_repo")>>
                     \o c.events \o <<Call(1, "_compile_repo")>> \o b.events
                     \o <<Call(1, "_collect_outputs")>> \o h.events
                     \o HarvestReport(sp, 1, h.found)
            /\ ret = ""
            /\ exc = ""
            /\ errArg = <<>>

NextLicense == LicenseStep

SpecLicense == InitLicense /\ [][NextLicense]_vars

(***************************************************************************)
(* C13: the license is resolved in the order COPYING, LICENSE,             *)
(* COPYING.LESSER, COPYING.GPL.  Whatever set of these files the root of   *)
(* the working copy holds, the license step leaves as <output>/LICENSE a   *)
(* copy of the first of them, in that order, that is present; it leaves a  *)
(* copy of the fallback exactly when none is present; and it changes       *)
(* nothing else of the output directory.                                   *)
(***************************************************************************)
C13_LicensePriority ==
    [][ pc = "license" =>
          LET order   == <<"COPYING", "LICENSE", "COPYING.LESSER", "COPYING.GPL">>
              sp      == specs[i]
              w       == The(work[RepoDirName(sp.code)])
              before  == The(out[OutDirName(sp.code)])
              after   == The(out'[OutDirName(sp.code)])
              present == {n \in 1..Len(order) : order[n] \in w.lic}
          IN  /\ pc' = "metadata"
              /\ exc' = ""
              /\ Cardinality(after.license) = 1
              /\ after.files = before.files
              /\ after.meta = before.meta
              /\ \A l \in after.license :
                    /\ (l.src = "fallback") <=> (present = {})
                    /\ present # {} =>
                          /\ l.src = "repo"
                          /\ l.origin = w.origin
                          /\ \E n \in present :
                                /\ l.name = order[n]
                                /\ \A m \in present : n <= m
              /\ \A x \in Codes \ {OutDirName(sp.code)} : out'[x] = out[x]
      ]_vars

\* The root holds all candidates but the first; the output directory carried
\* the license of an earlier run; LICENSE is the one now in place.
C13_Witness ==
    /\ pc = "metadata"
    /\ \E c \in Codes :
          /\ work[RepoDirName(c)] # {}
          /\ The(work[RepoDirName(c)]).lic = {"LICENSE", "COPYING.LESSER", "COPYING.GPL"}
          /\ out[OutDirName(c)] # {}
          /\ The(out[OutDirName(c)]).license =
                {[src |-> "repo", name |-> "LICENSE",
                  origin |-> The(work[RepoDirName(c)]).origin]}
          /\ The(out[OutDirName(c)]).meta # {}

(***************************************************************************)
(* C14: the metadata step is best-effort about the revision.  Every        *)
(* metadata step ends without an exception and leaves a descriptor with    *)
(* the eight fields lang, name, script, quality, source, commit,           *)
(* compiled_date and license; and whenever the revision query did not      *)
(* succeed, be it a non-zero exit or a failure to start the process, the   *)
(* descriptor is written all the same, with the empty string as commit.    *)
(***************************************************************************)
C14_MetadataBestEffort ==
    [][ pc = "metadata" =>
          LET o     == OutDirName(specs[i].code)
              query == {n \in 1..Len(Added) : Added[n].ev = "exec"}
          IN  /\ exc' = ""
              /\ Write(i, o, "metadata.json") \in Range(Added)
              /\ \A b \in out'[o] :
                    /\ b.meta # {}
                    /\ \A m \in b.meta :
                          /\ DOMAIN m = {"lang", "name", "script", "quality", "source",
                                         "commit", "compiled_date", "license"}
                          /\ \A n \in query :
                                Added[n].rc # "ok" => m.commit = <<>>
      ]_vars

(***************************************************************************)
(* C15: the revision is pinned on fresh and reused working copies alike.   *)
(* In every acquisition of an entry whose ref is set, unless the clone it  *)
(* issued has itself failed, git checkout <ref> is run in the working      *)
(* copy, once, as the last command of the acquisition, so after the        *)
(* removal and the clone if there were any; if the checkout does not       *)
(* succeed the acquisition raises and the build is not started, otherwise  *)
(* the working copy stands at ref; when ref is not set, no checkout is     *)
(* run.                                                                    *)
(***************************************************************************)
C15_RefPinned ==
    [][ pc = "clone" =>
          LET sp        == specs[i]
              d         == RepoDirName(sp.code)
              clones    == {n \in 1..Len(Added) : IsGit(Added[n], "clone")}
              checkouts == {n \in 1..Len(Added) : IsGit(Added[n], "checkout")}
              cloneFailed == \E n \in clones : Added[n].rc # "ok"
          IN  /\ ~Truthy(sp.ref) => checkouts = {}
              /\ cloneFailed => checkouts = {} /\ exc' # ""
              /\ (Truthy(sp.ref) /\ ~cloneFailed) =>
                    /\ checkouts = {Len(Added)}
                    /\ Added[Len(Added)].argv = <<"git", "checkout", sp.ref>>
                    /\ Added[Len(Added)].cwd = d
                    /\ IF Added[Len(Added)].rc = "ok"
                       THEN /\ exc' = ""
                            /\ pc' = "compile"
                            /\ \A w \in work'[d] : w.head = sp.ref
                       ELSE /\ exc' = Raised(Added[Len(Added)].rc)
                            /\ pc' = "exit"
      ]_vars

\* A working copy that existed was reused, and the only git command of the
\* acquisition was the checkout of ref.
C15_Witness ==
    /\ pc = "compile"
    /\ ~clean
    /\ Truthy(specs[i].ref)
    /\ Cardinality(Execs(log, i, "git")) = 1
    /\ \A n \in Execs(log, i, "git") : IsGit(log[n], "checkout") /\ log[n].rc = "ok"

\* The places in the record where step fn of language j is called, and the
\* five steps in the order of lines 188-198.
Pos(j, fn) == {n \in 1..Len(log) : log[n] = Call(j, fn)}
StepOrder == <<"_clone_repo", "_compile_repo", "_collect_outputs",
               "_copy_license", "_write_metadata">>

(***************************************************************************)
(* C16: processing is sequential and ordered.  The selected languages are  *)
(* in the order of their declaration in the configuration; no step adds    *)
(* to the record an event of a language earlier than the last recorded;    *)
(* within a language the header is printed first, then acquire, build,     *)
(* harvest, license and metadata are called in that order, each at most    *)
(* once and each only after the one before it; every event of a language   *)
(* is about that language; and the first event of a language comes right   *)
(* after the descriptor of the previous one was written (for the first     *)
(* language, right after the test of the fallback license).                *)
(***************************************************************************)
C16_Sequential ==
    /\ []((Called(0, "_filter_langs") /\ exc # "KeyError") =>
            \A a, b \in 1..Len(specs) :
               a < b => \E m, n \in 1..Len(config) :
                           /\ m < n
                           /\ MakeSpec(config[m]) = specs[a]
                           /\ MakeSpec(config[n]) = specs[b])
    /\ [][ \A n \in (Len(log) + 1)..Len(log') :
              LET e == log'[n]
                  j == e.i
              IN  /\ n > 1 => log'[n - 1].i <= j
                  /\ j <= i'
                  /\ j <= Len(specs')
                  /\ j >= 1 =>
                        /\ e.ev \in {"exec", "echo", "rmtree", "copy"} =>
                              DirOf(e) = RepoDirName(specs'[j].code)
                        /\ e.ev = "write" => e.cwd = OutDirName(specs'[j].code)
                        /\ log'[n - 1].i # j =>
                              /\ e = Say(j, Header(specs'[j]))
                              /\ log'[n - 1] =
                                    IF j = 1
                                    THEN Call(0, "fallback_license.exists")
                                    ELSE Write(j - 1, OutDirName(specs'[j - 1].code),
                                               "metadata.json")
                        /\ e.ev = "call" =>
                              \E k \in 1..Len(StepOrder) :
                                 /\ e = Call(j, StepOrder[k])
                                 /\ Pos(j, StepOrder[k]) = {}
                                 /\ k > 1 => Pos(j, StepOrder[k - 1]) # {}
         ]_vars

\* Two languages with different codes were processed to the end, in the
\* order of the configuration.
C16_Witness ==
    /\ ret = "0"
    /\ config = <<EntryT, EntryK>>
    /\ Len(specs) = 2
    /\ specs[1].code = T
    /\ specs[2].code = K
    /\ Pos(2, "_write_metadata") # {}

\* Event n of a sequence of events is a process started right after the echo
\* of its own command line.
Echoed(L, n) == n > 1 /\ L[n - 1] = Echo(L[n].i, Cmd(L[n].argv, L[n].cwd))

(***************************************************************************)
(* C17, as stated: every external command started during a run, the        *)
(* revision query of the metadata step included, directly follows the      *)
(* echo of its own command line.                                           *)
(***************************************************************************)
C17_EveryCommandEchoed ==
    [][ \A n \in 1..Len(Added) : Added[n].ev = "exec" => Echoed(Added, n) ]_vars

(***************************************************************************)
(* C17, amended: every external command started through _run (clone,       *)
(* checkout, primary and alternate bootstrap, configure, make) directly    *)
(* follows the echo of its own command line; the revision query of the     *)
(* metadata step is started by the metadata step itself and is not echoed. *)
(***************************************************************************)
C17_RunEchoes ==
    [][ \A n \in 1..Len(Added) :
           Added[n].ev = "exec" =>
              IF IsGit(Added[n], "rev-parse")
              THEN /\ n > 1
                   /\ Added[n - 1] = Call(Added[n].i, "_write_metadata")
                   /\ Echo(Added[n].i, Cmd(Added[n].argv, Added[n].cwd)) \notin Range(log')
              ELSE Echoed(Added, n)
      ]_vars

\* One language went through clone, checkout, both bootstraps, configure,
\* make and the revision query.
C17_Witness ==
    /\ \A op \in {"clone", "checkout", "rev-parse"} :
          \E e \in Range(log) : e.i = 1 /\ IsGit(e, op)
    /\ \A p \in BuildProgs : Execs(log, 1, p) # {}

\* The last selected entry with code c, and whether a code is selected twice.
LastWith(c) == CHOOSE n \in 1..Len(specs) :
                  /\ specs[n].code = c
                  /\ \A m \in 1..Len(specs) : specs[m].code = c => m <= n
Duplicated(c) == \E a, b \in 1..Len(specs) :
                    a < b /\ specs[a].code = c /\ specs[b].code = c

(***************************************************************************)
(* C18: duplicate codes are accepted and overwrite silently.  When two     *)
(* selected entries have the same code, the only exceptions of the run     *)
(* are a missing fallback license and an external command that did not     *)
(* succeed; nothing is printed but headers, the empty-harvest warning and  *)
(* the summary; the commands, removals and copies of both entries are in   *)
(* the one working copy apertium-<code> and their writes in the one        *)
(* output directory <code>, the earlier entry's before the later entry's;  *)
(* and after a run that returned 0 the descriptor in that directory is     *)
(* the later entry's.                                                      *)
(***************************************************************************)
C18_DuplicatesOverwrite ==
    \A c \in Codes :
       (Called(0, "_filter_langs") /\ exc # "KeyError" /\ Duplicated(c)) =>
          /\ exc \in {"", "FileNotFoundError", "CalledProcessError", "OSError"}
          /\ exc = "FileNotFoundError" => ~fallback
          /\ exc \in {"CalledProcessError", "OSError"} =>
                /\ log[Len(log)].ev = "exec"
                /\ Raised(log[Len(log)].rc) = exc
          /\ \A n \in 1..Len(log) :
                /\ log[n].ev = "print" =>
                      \/ \E j \in 1..Len(specs) :
                            log[n].text \in {Header(specs[j]), Warning(specs[j])}
                      \/ log[n].text = <<"Done.">>
                /\ (log[n].i >= 1 /\ specs[log[n].i].code = c) =>
                      /\ log[n].ev \in {"exec", "echo", "rmtree", "copy"} =>
                            DirOf(log[n]) = RepoDirName(c)
                      /\ log[n].ev = "write" => log[n].cwd = OutDirName(c)
                      /\ n > 1 => log[n - 1].i <= log[n].i
          /\ ret = "0" =>
                /\ \A j \in 1..Len(specs) : Pos(j, "_write_metadata") # {}
                /\ out[OutDirName(c)] # {}
                /\ \A b \in out[OutDirName(c)] :
                      /\ b.meta # {}
                      /\ \A m \in b.meta :
                            LET sp == specs[LastWith(c)]
                            IN  /\ m.lang = c
                                /\ m.name = sp.name
                                /\ m.script = sp.script
                                /\ m.quality = sp.quality
                                /\ m.source = sp.repo

\* Two entries with code k and different repositories, scripts and refs were
\* processed without the clean flag; the descriptor left is the second's.
C18_Witness ==
    /\ ret = "0"
    /\ ~clean
    /\ config = <<EntryK, EntryK2>>
    /\ Len(specs) = 2
    /\ \A n \in Execs(log, 2, "git") : ~IsGit(log[n], "clone")
    /\ \A b \in out[OutDirName(K)] : \A m \in b.meta : m.source = EntryK2["repo"]

\* An exec event that did not succeed without ending the step it is part of:
\* the primary bootstrap with a non-zero exit (line 96) and the revision
\* query with a non-zero exit (line 136).
Tolerated(e) ==
    /\ e.rc = "fail"
    /\ \/ Prog(e) = "autoreconf"
       \/ IsGit(e, "rev-parse")

(***************************************************************************)
(* C19: the summary line and exit code 0 mean that everything was done.    *)
(* In every state where the run has returned 0, no exception was raised;   *)
(* for every selected language the five steps were called, every command   *)
(* that did not succeed is one the step tolerates, LICENSE and the         *)
(* descriptor were written in this run, and the output directory exists    *)
(* and holds a LICENSE and the descriptor of the last entry with that      *)
(* code; and the summary line, when printed, is the last event of a run    *)
(* that returns 0 without an exception.                                    *)
(***************************************************************************)
C19_DoneMeansDone ==
    /\ ret = "0" =>
          /\ exc = ""
          /\ pc = "exit"
          /\ specs # <<>>
          /\ log[Len(log)] = Say(Len(specs), <<"Done.">>)
          /\ \A n \in 1..Len(log) :
                (log[n].ev = "exec" /\ log[n].rc # "ok") => Tolerated(log[n])
          /\ \A j \in 1..Len(specs) :
                LET o == OutDirName(specs[j].code)
                IN  /\ \A k \in 1..Len(StepOrder) : Pos(j, StepOrder[k]) # {}
                    /\ Write(j, o, "LICENSE") \in Range(log)
                    /\ Write(j, o, "metadata.json") \in Range(log)
                    /\ outRoot
                    /\ out[o] # {}
                    /\ \A b \in out[o] :
                          /\ b.license # {}
                          /\ b.meta # {}
                          /\ \A m \in b.meta :
                                /\ m.lang = specs[j].code
                                /\ m.source = specs[LastWith(specs[j].code)].repo
    /\ \A n \in 1..Len(log) :
          log[n].text = <<"Done.">> =>
             /\ n = Len(log)
             /\ ret = "0"
             /\ exc = ""

\* A run of two languages returned 0 although a primary bootstrap and a
\* revision query had exited non-zero.
C19_Witness ==
    /\ ret = "0"
    /\ Len(specs) = 2
    /\ specs[1].code # specs[2].code
    /\ \E e \in Range(log) : e.ev = "exec" /\ e.rc = "fail" /\ Prog(e) = "autoreconf"
    /\ \E e \in Range(log) : IsGit(e, "rev-parse") /\ e.rc = "fail"

(***************************************************************************)
(* C20: the provenance in the descriptor describes the working copy that   *)
(* was built.  Whenever a metadata step writes a descriptor, whether the   *)
(* working copy was cloned in this acquisition, left by an earlier run or  *)
(* left by an earlier entry with the same code, the descriptor's source    *)
(* is the URI the working copy that was built and harvested was cloned     *)
(* from.                                                                   *)
(***************************************************************************)
C20_SourceIsOrigin ==
    [][ pc = "metadata" =>
          LET sp == specs[i]
              o  == OutDirName(sp.code)
              w  == The(work[RepoDirName(sp.code)])
          IN  Write(i, o, "metadata.json") \in Range(Added) =>
                 \A b \in out'[o] : \A m \in b.meta : m.source = w.origin
      ]_vars

====
